---- MODULE Spec2Model ----
(***************************************************************************)
(* Model of pkg/volume/aws_pd/aws_pd.go: the AWS persistent disk volume    *)
(* plugin.  Two parts:                                                     *)
(*   - the path mapper (makeGlobalPDName, getPdNameFromGlobalMount) as     *)
(*     operators over strings, exercised by PathSpec;                      *)
(*   - SetUpAt / TearDownAt of awsPersistentDisk as step-wise processes    *)
(*     over a mount table, a directory tree and the disk manager,          *)
(*     exercised by Spec (calls serialized by the caller) and by FreeSpec  *)
(*     (two workloads whose calls the caller may let overlap).             *)
(*                                                                         *)
(* Strings are sequences of atoms.  The atoms "/", ":" and "." are the     *)
(* characters of that name; every other atom ("aws", "v", "plugins", ...)  *)
(* stands for a run of ordinary characters, so substring tests and path    *)
(* splitting on atoms agree with the tests on characters.                  *)
(***************************************************************************)
EXTENDS Integers, Sequences, FiniteSets, TLC

\* ------------------------------------------------------------------------
\* Bounds of the model
\* ------------------------------------------------------------------------
\* Longest tail, in atoms, of the disk identifiers PathSpec enumerates.
MaxTailLen == 5

\* Number of workloads (pods) that mount the same disk.
NumWorkloads == 2

\* ------------------------------------------------------------------------
\* Strings (package strings)
\* ------------------------------------------------------------------------
Slash == "/"
Dot == "."

\* The separator "://" of a disk URI, and its file-system friendly form.
UriSep == <<":", "/", "/">>
AwsSlash == <<"aws", "/">>
AwsUri == <<"aws", ":", "/", "/">>
DotDotSlash == <<".", ".", "/">>
DotDot == <<".", ".">>

\* strings.HasPrefix(s, p)
HasPrefix(s, p) ==
    /\ Len(p) <= Len(s)
    /\ SubSeq(s, 1, Len(p)) = p

\* strings.Contains(s, sub)
Contains(s, sub) ==
    \E i \in 1..(Len(s) - Len(sub) + 1) : SubSeq(s, i, i + Len(sub) - 1) = sub

\* strings.Replace(s, old, new, n): the first n non-overlapping occurrences
\* of old, from the left; every occurrence when n < 0.  old is not empty.
RECURSIVE Replace(_, _, _, _)
Replace(s, old, new, n) ==
    IF n = 0 \/ Len(s) < Len(old) THEN s
    ELSE IF HasPrefix(s, old)
         THEN new \o Replace(SubSeq(s, Len(old) + 1, Len(s)), old, new,
                             IF n < 0 THEN n ELSE n - 1)
         ELSE <<Head(s)>> \o Replace(Tail(s), old, new, n)

\* ------------------------------------------------------------------------
\* Paths (packages path and path/filepath, on a Unix host)
\* ------------------------------------------------------------------------
\* The elements of s between separators, empty elements included.
RECURSIVE Split(_)
Split(s) ==
    IF \A i \in 1..Len(s) : s[i] # Slash THEN <<s>>
    ELSE LET k == CHOOSE i \in 1..Len(s) :
                      s[i] = Slash /\ \A j \in 1..(i - 1) : s[j] # Slash
         IN  <<SubSeq(s, 1, k - 1)>> \o Split(SubSeq(s, k + 1, Len(s)))

\* elems joined with single separators.
RECURSIVE JoinElems(_)
JoinElems(elems) ==
    IF elems = <<>> THEN <<>>
    ELSE IF Len(elems) = 1 THEN elems[1]
    ELSE elems[1] \o <<Slash>> \o JoinElems(Tail(elems))

\* One pass of path.Clean over the elements of a path: out is the cleaned
\* prefix built so far.  Empty and "." elements are dropped; ".." removes
\* the element before it, is dropped at the root of a rooted path and is
\* kept at the start of a relative one.
RECURSIVE CleanElems(_, _, _)
CleanElems(elems, out, rooted) ==
    IF elems = <<>> THEN out
    ELSE LET e == Head(elems)
             rest == Tail(elems)
         IN  IF e = <<>> \/ e = <<Dot>> THEN CleanElems(rest, out, rooted)
             ELSE IF e = DotDot
                  THEN IF out # <<>> /\ out[Len(out)] # DotDot
                       THEN CleanElems(rest, SubSeq(out, 1, Len(out) - 1), rooted)
                       ELSE IF rooted THEN CleanElems(rest, out, rooted)
                       ELSE CleanElems(rest, Append(out, e), rooted)
                  ELSE CleanElems(rest, Append(out, e), rooted)

IsAbs(p) == p # <<>> /\ p[1] = Slash

\* The elements of path.Clean(p), without the leading separator.
CleanParts(p) == CleanElems(Split(p), <<>>, IsAbs(p))

\* path.Clean(p)
Clean(p) ==
    LET parts == CleanParts(p)
    IN  IF IsAbs(p) THEN <<Slash>> \o JoinElems(parts)
        ELSE IF parts = <<>> THEN <<Dot>>
        ELSE JoinElems(parts)

\* path.Join(elems): empty elements are ignored, the result is cleaned;
\* the empty string when every element is empty.
PathJoin(elems) ==
    LET nonEmpty == SelectSeq(elems, LAMBDA e : e # <<>>)
    IN  IF nonEmpty = <<>> THEN <<>> ELSE Clean(JoinElems(nonEmpty))

\* Length of the longest common prefix of two element lists.
RECURSIVE CommonLen(_, _)
CommonLen(a, b) ==
    IF a = <<>> \/ b = <<>> \/ Head(a) # Head(b) THEN 0
    ELSE 1 + CommonLen(Tail(a), Tail(b))

RECURSIVE Ups(_)
Ups(n) == IF n = 0 THEN <<>> ELSE <<DotDot>> \o Ups(n - 1)

\* filepath.Rel(base, targ): [ok, val].  It fails when one path is rooted
\* and the other is not, or when base must be left through a ".." of its
\* own; it is "." when the cleaned paths are equal.
Rel(base, targ) ==
    LET b == CleanParts(base)
        t == CleanParts(targ)
        c == CommonLen(b, t)
    IN  IF Clean(base) = Clean(targ) THEN [ok |-> TRUE, val |-> <<Dot>>]
        ELSE IF IsAbs(base) # IsAbs(targ) THEN [ok |-> FALSE, val |-> <<>>]
        ELSE IF c < Len(b) /\ b[c + 1] = DotDot THEN [ok |-> FALSE, val |-> <<>>]
        ELSE [ok |-> TRUE,
              val |-> JoinElems(Ups(Len(b) - c) \o SubSeq(t, c + 1, Len(t)))]

\* ------------------------------------------------------------------------
\* Path mapper
\* ------------------------------------------------------------------------
\* host.GetPluginDir(awsPersistentDiskPluginName): a rooted, clean directory.
PluginDir == <<"/", "plugins">>

\* The root of the global mounts: <plugin dir>/mounts.
BasePath == PathJoin(<<PluginDir, <<"mounts">>>>)

makeGlobalPDName(devName) ==
    LET name == Replace(devName, UriSep, <<Slash>>, -1)
    IN  PathJoin(<<PluginDir, <<"mounts">>, name>>)

\* The counts the call strings.Replace(name, "aws/", "aws://") of line 253,
\* which names none, can have been meant with: every occurrence, as in
\* makeGlobalPDName, or the first one.
ReplaceCounts == {-1, 1}

\* Mutant of getPdNameFromGlobalMount: the "://" is not put back.
getPdNameFromGlobalMountNoReverse(globalPath, n) ==
    LET rel == Rel(BasePath, globalPath)
    IN  IF ~rel.ok THEN [ok |-> FALSE, val |-> <<>>]
        ELSE IF Contains(rel.val, DotDotSlash) THEN [ok |-> FALSE, val |-> <<>>]
        ELSE [ok |-> TRUE, val |-> rel.val]

\* [ok, val]: the disk name recovered from a global mount path, or an error.
getPdNameFromGlobalMount(globalPath, n) ==
    LET rel == Rel(BasePath, globalPath)
    IN  IF ~rel.ok THEN [ok |-> FALSE, val |-> <<>>]
        ELSE IF Contains(rel.val, DotDotSlash) THEN [ok |-> FALSE, val |-> <<>>]
        ELSE IF HasPrefix(rel.val, AwsSlash)
             THEN [ok |-> TRUE, val |-> Replace(rel.val, AwsSlash, AwsUri, n)]
             ELSE [ok |-> TRUE, val |-> rel.val]

\* ------------------------------------------------------------------------
\* The host: disk, mount table, directories
\* ------------------------------------------------------------------------
Workloads == 1..NumWorkloads

\* spec.AWSPersistentDisk.PDName, the identifier of a disk: an aws URI, or
\* the URI of another scheme.
DiskIds == {AwsUri \o <<"v">>, <<"v">> \o UriSep \o <<"v">>}

\* pd.GetPath(): the volume directory of workload w.
PodDir(w) == <<"/", "pods", "/", ToString(w)>>

PodDirs == {PodDir(w) : w \in Workloads}

\* Error values.
Nil == "nil"
ErrNotExist == "ErrNotExist"
ErrStat == "ErrStat"
ErrAttach == "ErrAttach"
ErrMkdir == "ErrMkdir"
ErrMount == "ErrMount"
ErrUnmount == "ErrUnmount"
ErrMountRefs == "ErrMountRefs"
ErrMountPath == "ErrMountPath"
ErrDetach == "ErrDetach"
ErrRemove == "ErrRemove"

\* os.IsNotExist(err)
IsNotExist(e) == e = ErrNotExist

VARIABLES
    mounts,      \* paths of the mount table entries on the disk's device
    dirs,        \* workload directories that exist
    attached,    \* the disk is attached to the host
    inclSelf,    \* GetMountRefs(p) lists p itself (a contract of the mounter)
    disk,        \* identifier of the one disk the workloads share
    sched,       \* "serial": the caller runs one call at a time; "free": not
    detached,    \* DetachDisk has succeeded for the disk at least once
    bound,       \* a bind Mount of the disk has succeeded at least once
    pc,          \* per workload: position in its current call
    op,          \* per workload: its current or last call
    pdName,      \* per workload: pd.pdName of the instance of that call
    refs,        \* per workload: refs of TearDownAt
    err,         \* per workload: the err the call will return
    ret,         \* per workload: value returned by the last finished call
    log,         \* per workload: the external calls of its call, with results
    pid,         \* PathSpec: a disk identifier
    gpath,       \* PathSpec: a global mount path
    name,        \* PathSpec: result of getPdNameFromGlobalMount
    ppc          \* PathSpec: position

\* What no call changes: the mounter's contract, the disk, the scheduling.
hostCfg == <<inclSelf, disk, sched>>
hostVars == <<mounts, dirs, attached, inclSelf, disk, sched, detached, bound>>
callVars == <<pc, op, pdName, refs, err, ret, log>>
pathVars == <<pid, gpath, name, ppc>>
vars == <<mounts, dirs, attached, inclSelf, disk, sched, detached, bound,
          pc, op, pdName, refs, err, ret, log, pid, gpath, name, ppc>>

\* spec.AWSPersistentDisk.PDName of the volumes of the workloads.
DiskId == disk

\* The global mount path of the disk.
GlobalPath == makeGlobalPDName(DiskId)

NoName == [ok |-> FALSE, val |-> <<>>]

Init ==
    /\ mounts = {}
    /\ dirs = {}
    /\ attached = FALSE
    /\ inclSelf \in BOOLEAN
    /\ disk \in DiskIds
    /\ sched = "serial"
    /\ detached = FALSE
    /\ bound = FALSE
    /\ pc = [w \in Workloads |-> "idle"]
    /\ op = [w \in Workloads |-> "none"]
    /\ pdName = [w \in Workloads |-> <<>>]
    /\ refs = [w \in Workloads |-> {}]
    /\ err = [w \in Workloads |-> Nil]
    /\ ret = [w \in Workloads |-> "none"]
    /\ log = [w \in Workloads |-> <<>>]
    /\ pid = <<>>
    /\ gpath = <<>>
    /\ name = NoName
    /\ ppc = "off"

\* ------------------------------------------------------------------------
\* The mounter, the file system and the disk manager
\* ------------------------------------------------------------------------
\* mount.IsMountPoint(dir): the possible results <<mountpoint, err>>.  A
\* missing dir gives the not-exist error of os.Stat; any query can fail.
IsMountPoint(dir) ==
    IF dir \notin dirs THEN {<<FALSE, ErrNotExist>>}
    ELSE {<<dir \in mounts, Nil>>, <<FALSE, ErrStat>>}

\* mount.GetMountRefs(mounter, dir): the mount table paths on the device
\* mounted at dir; with or without dir itself, by the mounter's contract.
GetMountRefs(dir) ==
    IF dir \notin mounts THEN {}
    ELSE IF inclSelf THEN mounts ELSE mounts \ {dir}

\* refs[0]: refs is kept as a set, the order of the mount table is the
\* host's, so the head of the list is any of its entries.
FirstRef(r) == r

\* os.Remove(dir): possible outcomes.  A missing or mounted directory is
\* not removed; removal of an existing one can fail too (not empty).
RemoveOutcomes(dir) ==
    IF dir \in dirs /\ dir \notin mounts THEN {"ok", "fail"} ELSE {"fail"}

\* mounter.Mount(GlobalPath, dir, bind): it can fail having mounted dir.
MountOutcomes == {"ok", "fail", "failMounted"}

\* mounter.Unmount(dir): it can succeed leaving dir a mount point.
UnmountOutcomes == {"ok", "fail", "okStill"}

\* manager.DetachDisk(pd) has succeeded: the disk pd names is detached and
\* its global mount is gone.  Another name is no disk of this host.
DetachedMounts(n) == IF n = DiskId THEN mounts \ {GlobalPath} ELSE mounts
DetachedAttached(n) == IF n = DiskId THEN FALSE ELSE attached

\* The call made and its result, appended to the record of w's call.
Logged(w, call, res) == log' = [log EXCEPT ![w] = Append(@, <<call, res>>)]

\* How a result <<mountpoint, err>> of IsMountPoint reads in the record.
QueryRes(r) ==
    IF r[2] # Nil THEN r[2] ELSE IF r[1] THEN "mounted" ELSE "notMounted"

\* return e: the call is over and its local err is gone.
Return(w, e) ==
    /\ pc' = [pc EXCEPT ![w] = "idle"]
    /\ ret' = [ret EXCEPT ![w] = e]
    /\ err' = [err EXCEPT ![w] = Nil]

\* The call goes on at label, its local err being e.
Goto(w, label, e) ==
    /\ pc' = [pc EXCEPT ![w] = label]
    /\ err' = [err EXCEPT ![w] = e]
    /\ UNCHANGED ret

\* A call starts on a fresh instance: newBuilderInternal sets pdName from
\* the volume spec, newCleanerInternal leaves it empty.  The instances of
\* finished calls are discarded: the record of the call that finished last
\* is kept, without its log, until the next call starts, older ones are not.
Forgotten(u) == pc[u] = "idle" /\ log[u] = <<>>

Call(w, what, first, n) ==
    /\ pc[w] = "idle"
    /\ pc' = [pc EXCEPT ![w] = first]
    /\ op' = [u \in Workloads |->
                 IF u = w THEN what ELSE IF Forgotten(u) THEN "none" ELSE op[u]]
    /\ pdName' = [u \in Workloads |->
                 IF u = w THEN n ELSE IF Forgotten(u) THEN <<>> ELSE pdName[u]]
    /\ refs' = [u \in Workloads |->
                 IF u = w \/ Forgotten(u) THEN {} ELSE refs[u]]
    /\ err' = [err EXCEPT ![w] = Nil]
    /\ ret' = [u \in Workloads |->
                 IF u = w \/ Forgotten(u) THEN "none" ELSE ret[u]]
    /\ log' = [u \in Workloads |->
                  IF u = w \/ pc[u] = "idle" THEN <<>> ELSE log[u]]
    /\ UNCHANGED <<hostVars, pathVars>>

\* ------------------------------------------------------------------------
\* SetUpAt(dir), dir = PodDir(w)
\* ------------------------------------------------------------------------
CallSetUpAt(w) == Call(w, "SetUpAt", "su_check", DiskId)

\* Line 178: a failed query is an error unless the path does not exist.
SetUpQueryFailed(e) == e # Nil /\ ~IsNotExist(e)

\* Mutant of SetUpAlreadyMounted: the short-circuit is never taken.
SetUpAlreadyMountedNever(mountpoint) == FALSE

\* Line 181: nothing to do on a mount point.
SetUpAlreadyMounted(mountpoint) == mountpoint

\* Lines 176-183.
SetUpIsMountPoint(w) ==
    /\ pc[w] = "su_check"
    /\ \E r \in IsMountPoint(PodDir(w)) :
          /\ IF SetUpQueryFailed(r[2]) THEN Return(w, r[2])
             ELSE IF SetUpAlreadyMounted(r[1]) THEN Return(w, Nil)
             ELSE Goto(w, "su_attach", r[2])
          /\ Logged(w, "IsMountPoint", QueryRes(r))
    /\ UNCHANGED <<hostVars, op, pdName, refs, pathVars>>

\* Mutant of SetUpAttach: a failed attach is cleaned up by a detach.
SetUpAttachCleansUp(w) ==
    /\ pc[w] = "su_attach"
    /\ \/ /\ attached' = TRUE
          /\ mounts' = mounts \cup {makeGlobalPDName(pdName[w])}
          /\ Goto(w, "su_mkdir", err[w])
          /\ Logged(w, "AttachAndMountDisk", "ok")
       \/ /\ UNCHANGED <<attached, mounts>>
          /\ Goto(w, "su_detach", ErrAttach)
          /\ Logged(w, "AttachAndMountDisk", "fail")
    /\ UNCHANGED <<dirs, hostCfg, detached, bound, op, pdName, refs, pathVars>>

\* Lines 185-188: manager.AttachAndMountDisk(pd, globalPDPath).
SetUpAttach(w) ==
    /\ pc[w] = "su_attach"
    /\ \/ /\ attached' = TRUE
          /\ mounts' = mounts \cup {makeGlobalPDName(pdName[w])}
          /\ Goto(w, "su_mkdir", err[w])
          /\ Logged(w, "AttachAndMountDisk", "ok")
       \/ /\ UNCHANGED <<attached, mounts>>
          /\ Return(w, ErrAttach)
          /\ Logged(w, "AttachAndMountDisk", "fail")
    /\ UNCHANGED <<dirs, hostCfg, detached, bound, op, pdName, refs, pathVars>>

\* Lines 195-199: os.MkdirAll(dir); on failure detach, then return its error.
SetUpMkdirAll(w) ==
    /\ pc[w] = "su_mkdir"
    /\ \/ /\ dirs' = dirs \cup {PodDir(w)}
          /\ Goto(w, "su_mount", err[w])
          /\ Logged(w, "MkdirAll", "ok")
       \/ /\ UNCHANGED dirs
          /\ Goto(w, "su_detach", ErrMkdir)
          /\ Logged(w, "MkdirAll", "fail")
    /\ UNCHANGED <<mounts, attached, hostCfg, detached, bound, op, pdName, refs, pathVars>>

\* Lines 202-203 and 231: the bind mount of the global path on dir.
SetUpMount(w) ==
    /\ pc[w] = "su_mount"
    /\ \E o \in MountOutcomes :
          /\ mounts' = IF o = "fail" THEN mounts ELSE mounts \cup {PodDir(w)}
          /\ bound' = (bound \/ o = "ok")
          /\ IF o = "ok" THEN Return(w, Nil) ELSE Goto(w, "su_check2", ErrMount)
          /\ Logged(w, "Mount", o)
    /\ UNCHANGED <<dirs, attached, hostCfg, detached, op, pdName, refs, pathVars>>

\* Mutant of SetUpNeedsUnmount: the rollback never unmounts.
SetUpNeedsUnmountNever(mountpoint) == FALSE

\* Line 209: a failed mount that left dir mounted is unmounted first.
SetUpNeedsUnmount(mountpoint) == mountpoint

\* Lines 204-209.
SetUpIsMountPoint2(w) ==
    /\ pc[w] = "su_check2"
    /\ \E r \in IsMountPoint(PodDir(w)) :
          /\ IF r[2] # Nil THEN Return(w, err[w])
             ELSE IF SetUpNeedsUnmount(r[1]) THEN Goto(w, "su_unmount", err[w])
             ELSE Goto(w, "su_remove", err[w])
          /\ Logged(w, "IsMountPoint", QueryRes(r))
    /\ UNCHANGED <<hostVars, op, pdName, refs, pathVars>>

\* Lines 210-213.
SetUpUnmount(w) ==
    /\ pc[w] = "su_unmount"
    /\ \E o \in UnmountOutcomes :
          /\ mounts' = IF o = "ok" THEN mounts \ {PodDir(w)} ELSE mounts
          /\ IF o = "fail" THEN Return(w, err[w]) ELSE Goto(w, "su_check3", err[w])
          /\ Logged(w, "Unmount", o)
    /\ UNCHANGED <<dirs, attached, hostCfg, detached, bound, op, pdName, refs, pathVars>>

\* Mutant of SetUpIsMountPoint3: a target still mounted is cleaned up too.
SetUpIsMountPoint3Proceeds(w) ==
    /\ pc[w] = "su_check3"
    /\ \E r \in IsMountPoint(PodDir(w)) :
          /\ IF r[2] # Nil THEN Return(w, err[w])
             ELSE Goto(w, "su_remove", err[w])
          /\ Logged(w, "IsMountPoint", QueryRes(r))
    /\ UNCHANGED <<hostVars, op, pdName, refs, pathVars>>

\* Lines 214-223: still mounted is left to the next sync loop.
SetUpIsMountPoint3(w) ==
    /\ pc[w] = "su_check3"
    /\ \E r \in IsMountPoint(PodDir(w)) :
          /\ IF r[2] # Nil \/ r[1] THEN Return(w, err[w])
             ELSE Goto(w, "su_remove", err[w])
          /\ Logged(w, "IsMountPoint", QueryRes(r))
    /\ UNCHANGED <<hostVars, op, pdName, refs, pathVars>>

\* Line 225: os.Remove(dir), its result ignored.
SetUpRemove(w) ==
    /\ pc[w] = "su_remove"
    /\ \E o \in RemoveOutcomes(PodDir(w)) :
          /\ dirs' = IF o = "ok" THEN dirs \ {PodDir(w)} ELSE dirs
          /\ Logged(w, "Remove", o)
    /\ Goto(w, "su_detach", err[w])
    /\ UNCHANGED <<mounts, attached, hostCfg, detached, bound, op, pdName, refs, pathVars>>

\* Mutant of SetUpDetachDiskLogError: the error of the detach is returned.
SetUpDetachDiskPropagates(w) ==
    /\ pc[w] = "su_detach"
    /\ \/ /\ mounts' = DetachedMounts(pdName[w])
          /\ attached' = DetachedAttached(pdName[w])
          /\ detached' = (detached \/ pdName[w] = DiskId)
          /\ Logged(w, "DetachDisk", "ok")
          /\ Return(w, err[w])
       \/ /\ UNCHANGED <<mounts, attached, detached>>
          /\ Logged(w, "DetachDisk", "fail")
          /\ Return(w, ErrDetach)
    /\ UNCHANGED <<dirs, hostCfg, bound, op, pdName, refs, pathVars>>

\* Lines 147-152 with 197-198 and 227-228: detachDiskLogError(pd), whose
\* error is logged only; then the call returns the error it had.
SetUpDetachDiskLogError(w) ==
    /\ pc[w] = "su_detach"
    /\ \/ /\ mounts' = DetachedMounts(pdName[w])
          /\ attached' = DetachedAttached(pdName[w])
          /\ detached' = (detached \/ pdName[w] = DiskId)
          /\ Logged(w, "DetachDisk", "ok")
       \/ /\ UNCHANGED <<mounts, attached, detached>>
          /\ Logged(w, "DetachDisk", "fail")
    /\ Return(w, err[w])
    /\ UNCHANGED <<dirs, hostCfg, bound, op, pdName, refs, pathVars>>

\* ------------------------------------------------------------------------
\* TearDownAt(dir), dir = PodDir(w)
\* ------------------------------------------------------------------------
CallTearDownAt(w) == Call(w, "TearDownAt", "td_check", <<>>)

\* Line 273: every error of the query is returned.
TearDownQueryFailed(e) == e # Nil

\* Mutant of TearDownNotMounted: the stale directory is torn down in full.
TearDownNotMountedNever(mountpoint) == FALSE

\* Line 277: a directory that is no mount point is only removed.
TearDownNotMounted(mountpoint) == ~mountpoint

\* Lines 272-280.
TearDownIsMountPoint(w) ==
    /\ pc[w] = "td_check"
    /\ \E r \in IsMountPoint(PodDir(w)) :
          /\ IF TearDownQueryFailed(r[2]) THEN Return(w, r[2])
             ELSE IF TearDownNotMounted(r[1]) THEN Goto(w, "td_stale", r[2])
             ELSE Goto(w, "td_refs", r[2])
          /\ Logged(w, "IsMountPoint", QueryRes(r))
    /\ UNCHANGED <<hostVars, op, pdName, refs, pathVars>>

\* Line 279: return os.Remove(dir).
TearDownRemoveStale(w) ==
    /\ pc[w] = "td_stale"
    /\ \E o \in RemoveOutcomes(PodDir(w)) :
          /\ dirs' = IF o = "ok" THEN dirs \ {PodDir(w)} ELSE dirs
          /\ Return(w, IF o = "ok" THEN Nil ELSE ErrRemove)
          /\ Logged(w, "Remove", o)
    /\ UNCHANGED <<mounts, attached, hostCfg, detached, bound, op, pdName, refs, pathVars>>

\* Mutant of TearDownGetMountRefs: the unmount is left out.
TearDownGetMountRefsSkipsUnmount(w) ==
    /\ pc[w] = "td_refs"
    /\ \/ /\ refs' = [refs EXCEPT ![w] = GetMountRefs(PodDir(w))]
          /\ Goto(w, "td_name", Nil)
          /\ Logged(w, "GetMountRefs", "ok")
       \/ /\ UNCHANGED refs
          /\ Return(w, ErrMountRefs)
          /\ Logged(w, "GetMountRefs", "fail")
    /\ UNCHANGED <<hostVars, op, pdName, pathVars>>

\* Lines 282-286.
TearDownGetMountRefs(w) ==
    /\ pc[w] = "td_refs"
    /\ \/ /\ refs' = [refs EXCEPT ![w] = GetMountRefs(PodDir(w))]
          /\ Goto(w, "td_unmount", Nil)
          /\ Logged(w, "GetMountRefs", "ok")
       \/ /\ UNCHANGED refs
          /\ Return(w, ErrMountRefs)
          /\ Logged(w, "GetMountRefs", "fail")
    /\ UNCHANGED <<hostVars, op, pdName, pathVars>>

\* Mutant of TearDownUnmount: a failed unmount does not end the call.
TearDownUnmountGoesOn(w) ==
    /\ pc[w] = "td_unmount"
    /\ \E o \in UnmountOutcomes :
          /\ mounts' = IF o = "ok" THEN mounts \ {PodDir(w)} ELSE mounts
          /\ Goto(w, "td_name", IF o = "fail" THEN ErrUnmount ELSE err[w])
          /\ Logged(w, "Unmount", o)
    /\ UNCHANGED <<dirs, attached, hostCfg, detached, bound, op, pdName, refs, pathVars>>

\* Lines 288-291.
TearDownUnmount(w) ==
    /\ pc[w] = "td_unmount"
    /\ \E o \in UnmountOutcomes :
          /\ mounts' = IF o = "ok" THEN mounts \ {PodDir(w)} ELSE mounts
          /\ IF o = "fail" THEN Return(w, ErrUnmount) ELSE Goto(w, "td_name", err[w])
          /\ Logged(w, "Unmount", o)
    /\ UNCHANGED <<dirs, attached, hostCfg, detached, bound, op, pdName, refs, pathVars>>

\* Mutant of LastReference: two references count as the last one.
LastReferenceUpToTwo(r) == Cardinality(r) \in {1, 2}

\* Mutant of LastReference: any reference at all lets the disk be detached.
LastReferenceAny(r) == Cardinality(r) >= 1

\* Line 294: the condition under which the disk is detached.
LastReference(r) == Cardinality(r) = 1

\* Mutant of TearDownPdName: the recovered name is not stored in pd.pdName.
TearDownPdNameUnset(w) ==
    /\ pc[w] = "td_name"
    /\ IF LastReference(refs[w])
       THEN \E n \in ReplaceCounts, first \in FirstRef(refs[w]) :
               LET got == getPdNameFromGlobalMount(first, n)
               IN  IF got.ok THEN Goto(w, "td_detach", Nil)
                   ELSE Return(w, ErrMountPath)
       ELSE Goto(w, "td_check2", err[w])
    /\ UNCHANGED <<hostVars, op, pdName, refs, log, pathVars>>

\* Lines 294-300: pd.pdName, err = getPdNameFromGlobalMount(refs[0]).
TearDownPdName(w) ==
    /\ pc[w] = "td_name"
    /\ IF LastReference(refs[w])
       THEN \E n \in ReplaceCounts, first \in FirstRef(refs[w]) :
               LET got == getPdNameFromGlobalMount(first, n)
               IN  /\ pdName' = [pdName EXCEPT ![w] = got.val]
                   /\ IF got.ok THEN Goto(w, "td_detach", Nil)
                      ELSE Return(w, ErrMountPath)
       ELSE /\ Goto(w, "td_check2", err[w])
            /\ UNCHANGED pdName
    /\ UNCHANGED <<hostVars, op, refs, log, pathVars>>

\* Lines 301-304: manager.DetachDisk(pd); its err is a variable of the if.
TearDownDetach(w) ==
    /\ pc[w] = "td_detach"
    /\ \/ /\ mounts' = DetachedMounts(pdName[w])
          /\ attached' = DetachedAttached(pdName[w])
          /\ detached' = (detached \/ pdName[w] = DiskId)
          /\ Goto(w, "td_check2", err[w])
          /\ Logged(w, "DetachDisk", "ok")
       \/ /\ UNCHANGED <<mounts, attached, detached>>
          /\ Return(w, ErrDetach)
          /\ Logged(w, "DetachDisk", "fail")
    /\ UNCHANGED <<dirs, hostCfg, bound, op, pdName, refs, pathVars>>

\* Lines 306-311 and 317: a failed query returns err, not mntErr.
TearDownIsMountPoint2(w) ==
    /\ pc[w] = "td_check2"
    /\ \E r \in IsMountPoint(PodDir(w)) :
          /\ IF r[2] # Nil THEN Return(w, err[w])
             ELSE IF ~r[1] THEN Goto(w, "td_remove", err[w])
             ELSE Return(w, Nil)
          /\ Logged(w, "IsMountPoint", QueryRes(r))
    /\ UNCHANGED <<hostVars, op, pdName, refs, pathVars>>

\* Lines 312-317.
TearDownRemove(w) ==
    /\ pc[w] = "td_remove"
    /\ \E o \in RemoveOutcomes(PodDir(w)) :
          /\ dirs' = IF o = "ok" THEN dirs \ {PodDir(w)} ELSE dirs
          /\ Return(w, IF o = "ok" THEN Nil ELSE ErrRemove)
          /\ Logged(w, "Remove", o)
    /\ UNCHANGED <<mounts, attached, hostCfg, detached, bound, op, pdName, refs, pathVars>>

\* ------------------------------------------------------------------------
\* Specification: the caller serializes the calls on the disk
\* ------------------------------------------------------------------------
AllIdle == \A w \in Workloads : pc[w] = "idle"

Next ==
    \/ \E w \in Workloads : AllIdle /\ CallSetUpAt(w)
    \/ \E w \in Workloads : SetUpIsMountPoint(w)
    \/ \E w \in Workloads : SetUpAttach(w)
    \/ \E w \in Workloads : SetUpMkdirAll(w)
    \/ \E w \in Workloads : SetUpMount(w)
    \/ \E w \in Workloads : SetUpIsMountPoint2(w)
    \/ \E w \in Workloads : SetUpUnmount(w)
    \/ \E w \in Workloads : SetUpIsMountPoint3(w)
    \/ \E w \in Workloads : SetUpRemove(w)
    \/ \E w \in Workloads : SetUpDetachDiskLogError(w)
    \/ \E w \in Workloads : AllIdle /\ CallTearDownAt(w)
    \/ \E w \in Workloads : TearDownIsMountPoint(w)
    \/ \E w \in Workloads : TearDownRemoveStale(w)
    \/ \E w \in Workloads : TearDownGetMountRefs(w)
    \/ \E w \in Workloads : TearDownUnmount(w)
    \/ \E w \in Workloads : TearDownPdName(w)
    \/ \E w \in Workloads : TearDownDetach(w)
    \/ \E w \in Workloads : TearDownIsMountPoint2(w)
    \/ \E w \in Workloads : TearDownRemove(w)

Spec == Init /\ [][Next]_vars

\* ------------------------------------------------------------------------
\* Specification without the caller's serialization
\* ------------------------------------------------------------------------
\* The caller may or may not run the calls on the disk one at a time.
InitFree ==
    /\ mounts = {}
    /\ dirs = {}
    /\ attached = FALSE
    /\ inclSelf \in BOOLEAN
    /\ disk = AwsUri \o <<"v">>
    /\ sched \in {"serial", "free"}
    /\ detached = FALSE
    /\ bound = FALSE
    /\ pc = [w \in Workloads |-> "idle"]
    /\ op = [w \in Workloads |-> "none"]
    /\ pdName = [w \in Workloads |-> <<>>]
    /\ refs = [w \in Workloads |-> {}]
    /\ err = [w \in Workloads |-> Nil]
    /\ ret = [w \in Workloads |-> "none"]
    /\ log = [w \in Workloads |-> <<>>]
    /\ pid = <<>>
    /\ gpath = <<>>
    /\ name = NoName
    /\ ppc = "off"

\* The two workloads, of directories P1 and P2, whose calls may overlap.
Racers == {1, 2}

\* A call may start now.
MayStart == sched = "serial" => AllIdle

NextFree ==
    \/ \E w \in Racers : MayStart /\ CallSetUpAt(w)
    \/ \E w \in Racers : SetUpIsMountPoint(w)
    \/ \E w \in Racers : SetUpAttach(w)
    \/ \E w \in Racers : SetUpMkdirAll(w)
    \/ \E w \in Racers : SetUpMount(w)
    \/ \E w \in Racers : SetUpIsMountPoint2(w)
    \/ \E w \in Racers : SetUpUnmount(w)
    \/ \E w \in Racers : SetUpIsMountPoint3(w)
    \/ \E w \in Racers : SetUpRemove(w)
    \/ \E w \in Racers : SetUpDetachDiskLogError(w)
    \/ \E w \in Racers : MayStart /\ CallTearDownAt(w)
    \/ \E w \in Racers : TearDownIsMountPoint(w)
    \/ \E w \in Racers : TearDownRemoveStale(w)
    \/ \E w \in Racers : TearDownGetMountRefs(w)
    \/ \E w \in Racers : TearDownUnmount(w)
    \/ \E w \in Racers : TearDownPdName(w)
    \/ \E w \in Racers : TearDownDetach(w)
    \/ \E w \in Racers : TearDownIsMountPoint2(w)
    \/ \E w \in Racers : TearDownRemove(w)

FreeSpec == InitFree /\ [][NextFree]_vars

\* ------------------------------------------------------------------------
\* Specification of the path mapper alone
\* ------------------------------------------------------------------------
IdAtoms == {"aws", "v", ":", "/", "."}

\* How an identifier starts: any way, as an aws URI, as the mapped form of
\* one, or as the URI of another provider.
IdHeads == {<<>>, AwsUri, AwsSlash, <<"v">> \o UriSep}

Tails == UNION {[1..n -> IdAtoms] : n \in 0..MaxTailLen}

Ids == {h \o t : h \in IdHeads, t \in Tails}

\* A mount table path is below the mount root or anywhere else.
RawRoots == {BasePath \o <<Slash>>, <<>>}

InitPath ==
    /\ mounts = {}
    /\ dirs = {}
    /\ attached = FALSE
    /\ inclSelf = FALSE
    /\ disk = AwsUri \o <<"v">>
    /\ sched = "serial"
    /\ detached = FALSE
    /\ bound = FALSE
    /\ pc = [w \in Workloads |-> "idle"]
    /\ op = [w \in Workloads |-> "none"]
    /\ pdName = [w \in Workloads |-> <<>>]
    /\ refs = [w \in Workloads |-> {}]
    /\ err = [w \in Workloads |-> Nil]
    /\ ret = [w \in Workloads |-> "none"]
    /\ log = [w \in Workloads |-> <<>>]
    /\ pid \in Ids
    /\ gpath = <<>>
    /\ name = NoName
    /\ ppc = "start"

\* The global mount path of the disk pid.
PathMake ==
    /\ ppc = "start"
    /\ gpath' = makeGlobalPDName(pid)
    /\ ppc' = "made"
    /\ UNCHANGED <<hostVars, callVars, pid, name>>

\* A path read from the mount table, whatever it is.
PathRaw ==
    /\ ppc = "start"
    /\ \E root \in RawRoots : gpath' = root \o pid
    /\ ppc' = "raw"
    /\ UNCHANGED <<hostVars, callVars, pid, name>>

\* The disk name recovered from the path.
PathName ==
    /\ ppc \in {"made", "raw"}
    /\ \E n \in ReplaceCounts : name' = getPdNameFromGlobalMount(gpath, n)
    /\ ppc' = IF ppc = "made" THEN "doneMade" ELSE "doneRaw"
    /\ UNCHANGED <<hostVars, callVars, pid, gpath>>

NextPath == PathMake \/ PathRaw \/ PathName

PathSpec == InitPath /\ [][NextPath]_vars

\* ------------------------------------------------------------------------
\* Forms of disk identifiers
\* ------------------------------------------------------------------------
\* id has no parent-traversal segment after "://" has become "/".
NoTraversal(id) ==
    LET elems == Split(Replace(id, UriSep, <<Slash>>, -1))
    IN  \A i \in DOMAIN elems : elems[i] # DotDot

\* p is a non-empty relative path in clean form: no empty, "." or ".."
\* element, so no leading, trailing or doubled separator.
CleanRelative(p) ==
    /\ p # <<>>
    /\ \A i \in DOMAIN Split(p) : Split(p)[i] \notin {<<>>, <<Dot>>, DotDot}

\* id is "aws://" followed by a clean relative path in which neither "aws/"
\* nor "../" occurs.
CanonicalAwsId(id) ==
    /\ HasPrefix(id, AwsUri)
    /\ LET rest == SubSeq(id, Len(AwsUri) + 1, Len(id))
       IN  /\ CleanRelative(rest)
           /\ ~Contains(rest, AwsSlash)
           /\ ~Contains(rest, DotDotSlash)

\* id is a clean relative path that has no "../" in it and does not begin
\* with "aws/" (being clean, it has no "://").
PlainId(id) ==
    /\ CleanRelative(id)
    /\ ~HasPrefix(id, AwsSlash)
    /\ ~Contains(id, DotDotSlash)

\* ------------------------------------------------------------------------
\* Properties of SetUpAt and TearDownAt (checked under Spec)
\* ------------------------------------------------------------------------
\* The last call on the host was w's call of what, and it has returned.
Finished(w, what) == pc[w] = "idle" /\ op[w] = what /\ log[w] # <<>>

\* w is in, or has just finished, a call of what.
During(w, what) == op[w] = what /\ log[w] # <<>>

\* How often w's call has called the external operation call.
NumCalls(w, call) == Cardinality({i \in DOMAIN log[w] : log[w][i][1] = call})

\* The workload directories that are bind mounts now.
BindMounts == mounts \cap PodDirs

\* C1: with a mounter whose GetMountRefs lists the queried path too, and
\* disk D bind-mounted at the directories of a and b: TearDownAt of a, which
\* sees {dir a, dir b, global}, does not call DetachDisk; the following
\* TearDownAt of b, which sees {dir b, global}, calls DetachDisk exactly
\* once (both calls unmount and remove their directory).
C1_RefCountedDetach ==
    \A a, b \in Workloads :
        ( /\ a # b
          /\ inclSelf
          /\ pc[a] = "idle" /\ op[a] = "TearDownAt" /\ ret[a] = Nil
          /\ refs[a] = {PodDir(a), PodDir(b), GlobalPath}
          /\ Finished(b, "TearDownAt") /\ ret[b] # ErrUnmount
          /\ refs[b] = {PodDir(b), GlobalPath}
          /\ {PodDir(a), PodDir(b)} \cap (mounts \cup dirs) = {} )
        => NumCalls(b, "DetachDisk") = 1

\* C2: whenever a call stands at its DetachDisk invocation (the best-effort
\* detach of SetUpAt or the detach of TearDownAt), no other workload's
\* directory is bind-mounted to the disk.
C2_NoDetachWhileInUse ==
    \A w \in Workloads :
        pc[w] \in {"su_detach", "td_detach"}
        => \A u \in Workloads \ {w} : PodDir(u) \notin mounts

\* C3: in a TearDownAt whose refs, gathered before the unmount, has more
\* than one entry, DetachDisk is not called, and the mount table differs
\* from the one refs was read from at most in the target's own entry: the
\* global mount and the other workloads' bind mounts are as they were.
C3_SharedTearDownFrame ==
    \A w \in Workloads :
        (During(w, "TearDownAt") /\ Cardinality(refs[w]) > 1)
        => /\ NumCalls(w, "DetachDisk") = 0
           /\ mounts \ {PodDir(w)} = refs[w] \ {PodDir(w)}
           /\ (GlobalPath \in refs[w] => attached)

C3_Witness ==
    \E w \in Workloads :
        /\ Finished(w, "TearDownAt")
        /\ Cardinality(refs[w]) > 1
        /\ \E i \in DOMAIN log[w] : log[w][i] = <<"Unmount", "ok">>
        /\ PodDir(w) \notin mounts
        /\ GlobalPath \in mounts
        /\ \E u \in Workloads \ {w} : PodDir(u) \in mounts

\* C4: a SetUpAt whose first query reports the target a mount point returns
\* success at once: the query is its only external call (no
\* AttachAndMountDisk, MkdirAll, Mount, Unmount or DetachDisk).
C4_IdempotentSetUp ==
    \A w \in Workloads :
        (During(w, "SetUpAt") /\ log[w][1] = <<"IsMountPoint", "mounted">>)
        => /\ pc[w] = "idle"
           /\ ret[w] = Nil
           /\ Len(log[w]) = 1

C4_Witness ==
    \E w \in Workloads :
        /\ Finished(w, "SetUpAt")
        /\ log[w] = << <<"IsMountPoint", "mounted">> >>
        /\ ret[w] = Nil
        /\ PodDir(w) \in mounts

\* C5: a TearDownAt whose query reports the target an existing directory
\* that is no mount point calls neither GetMountRefs nor Unmount nor
\* DetachDisk; its one further call is os.Remove, whose result it returns:
\* the directory is gone and the call succeeds when the removal does.
C5_StaleTearDown ==
    \A w \in Workloads :
        (During(w, "TearDownAt") /\ log[w][1] = <<"IsMountPoint", "notMounted">>)
        => /\ NumCalls(w, "GetMountRefs") = 0
           /\ NumCalls(w, "Unmount") = 0
           /\ NumCalls(w, "DetachDisk") = 0
           /\ pc[w] \in {"td_stale", "idle"}
           /\ pc[w] = "td_stale" => Len(log[w]) = 1
           /\ pc[w] = "idle" =>
                 /\ Len(log[w]) = 2
                 /\ log[w][2][1] = "Remove"
                 /\ log[w][2][2] = "ok" => (ret[w] = Nil /\ PodDir(w) \notin dirs)
                 /\ log[w][2][2] # "ok" => (ret[w] = ErrRemove /\ PodDir(w) \in dirs)

C5_Witness ==
    \E w \in Workloads :
        /\ Finished(w, "TearDownAt")
        /\ log[w] = << <<"IsMountPoint", "notMounted">>, <<"Remove", "ok">> >>
        /\ ret[w] = Nil
        /\ PodDir(w) \notin dirs

\* C6: a TearDownAt on a target that does not exist (as after a TearDownAt
\* that succeeded) returns success and calls neither Unmount nor
\* DetachDisk: "does not exist" counts as "not mounted", not as an error.
C6_RepeatedTearDown ==
    \A w \in Workloads :
        (Finished(w, "TearDownAt") /\ log[w][1] = <<"IsMountPoint", ErrNotExist>>)
        => /\ ret[w] = Nil
           /\ NumCalls(w, "Unmount") = 0
           /\ NumCalls(w, "DetachDisk") = 0

\* C7: in a SetUpAt where the attach succeeds, the bind Mount fails and the
\* query after it reports the target mounted, the next call is Unmount and
\* the call returns the error of the Mount; when that Unmount succeeds and
\* the target is then no mount point, the call goes on to os.Remove and to
\* DetachDisk, called once, whatever DetachDisk returns, and the directory
\* is gone once its removal has succeeded.
C7_BindMountRollback ==
    \A w \in Workloads :
        ( /\ Finished(w, "SetUpAt")
          /\ Len(log[w]) >= 5
          /\ log[w][2] = <<"AttachAndMountDisk", "ok">>
          /\ log[w][4][1] = "Mount" /\ log[w][4][2] # "ok"
          /\ log[w][5] = <<"IsMountPoint", "mounted">> )
        => /\ ret[w] = ErrMount
           /\ Len(log[w]) >= 6
           /\ log[w][6][1] = "Unmount"
           /\ (log[w][6][2] = "ok" /\ log[w][7] = <<"IsMountPoint", "notMounted">>)
              => /\ Len(log[w]) = 9
                 /\ log[w][8][1] = "Remove"
                 /\ log[w][9][1] = "DetachDisk"
                 /\ NumCalls(w, "DetachDisk") = 1
                 /\ NumCalls(w, "Unmount") = 1
                 /\ log[w][8][2] = "ok" => PodDir(w) \notin dirs

C7_Witness ==
    \E w \in Workloads :
        /\ Finished(w, "SetUpAt")
        /\ Len(log[w]) = 9
        /\ log[w][4] = <<"Mount", "failMounted">>
        /\ log[w][5] = <<"IsMountPoint", "mounted">>
        /\ log[w][6] = <<"Unmount", "ok">>
        /\ log[w][8] = <<"Remove", "ok">>
        /\ log[w][9] = <<"DetachDisk", "fail">>
        /\ ret[w] = ErrMount
        /\ PodDir(w) \notin dirs
        /\ PodDir(w) \notin mounts

\* C10: a retried TearDownAt still detaches.  When a bind mount of the disk
\* (of an aws identifier that the path mapper recovers exactly) has been
\* set up, none is left, and the last call on the host is a TearDownAt
\* that returned success having found its target already unmounted (the
\* retry after a TearDownAt that unmounted and then failed), DetachDisk has
\* succeeded for the disk.
C10_RetryDetaches ==
    \A w \in Workloads :
        ( /\ bound
          /\ CanonicalAwsId(DiskId)
          /\ BindMounts = {}
          /\ Finished(w, "TearDownAt")
          /\ ret[w] = Nil
          /\ NumCalls(w, "Unmount") = 0 )
        => detached

\* A step of w's call has failed: a query or call returned an error.
StepFailed(w) ==
    \E i \in DOMAIN log[w] :
        log[w][i][2] \in {"fail", "failMounted", ErrStat, ErrNotExist}

\* C11: a TearDownAt one of whose steps failed (the first query, GetMountRefs,
\* Unmount, DetachDisk, the query after the unmount, or os.Remove) returns
\* an error; so does one whose reverse path mapping failed.
C11_TearDownReportsFailure ==
    \A w \in Workloads :
        (Finished(w, "TearDownAt") /\ StepFailed(w)) => ret[w] # Nil

\* C12: when the last call on the host is a SetUpAt that returned success
\* (through the short-circuit or not, after whatever calls came before), the
\* disk is attached and mounted at its global path and the target is
\* bind-mounted.
C12_SetUpSuccessBacked ==
    \A w \in Workloads :
        (Finished(w, "SetUpAt") /\ ret[w] = Nil)
        => /\ attached
           /\ GlobalPath \in mounts
           /\ PodDir(w) \in mounts

\* C13: a SetUpAt whose AttachAndMountDisk failed returns that error at once:
\* the query and the attach are its only external calls (no MkdirAll, Mount,
\* Unmount or DetachDisk), and the target directory exists exactly if the
\* query found it existing.
C13_AttachFailureFrame ==
    \A w \in Workloads :
        ( /\ During(w, "SetUpAt")
          /\ Len(log[w]) >= 2
          /\ log[w][2] = <<"AttachAndMountDisk", "fail">> )
        => /\ pc[w] = "idle"
           /\ ret[w] = ErrAttach
           /\ Len(log[w]) = 2
           /\ (PodDir(w) \in dirs) <=> (log[w][1][2] # ErrNotExist)

C13_Witness ==
    \E w \in Workloads :
        /\ Finished(w, "SetUpAt")
        /\ log[w] = << <<"IsMountPoint", ErrNotExist>>,
                       <<"AttachAndMountDisk", "fail">> >>
        /\ ret[w] = ErrAttach
        /\ PodDir(w) \notin dirs

\* C14: a SetUpAt whose attach succeeded and whose MkdirAll failed makes one
\* more call, DetachDisk, and no Mount; it returns the error of MkdirAll
\* whether DetachDisk succeeds or fails.
C14_MkdirFailureDetaches ==
    \A w \in Workloads :
        ( /\ During(w, "SetUpAt")
          /\ Len(log[w]) >= 3
          /\ log[w][2] = <<"AttachAndMountDisk", "ok">>
          /\ log[w][3] = <<"MkdirAll", "fail">> )
        => /\ pc[w] \in {"su_detach", "idle"}
           /\ NumCalls(w, "Mount") = 0
           /\ pc[w] = "su_detach" => Len(log[w]) = 3
           /\ pc[w] = "idle" =>
                 /\ Len(log[w]) = 4
                 /\ log[w][4][1] = "DetachDisk"
                 /\ NumCalls(w, "DetachDisk") = 1
                 /\ ret[w] = ErrMkdir

C14_Witness ==
    \E w \in Workloads :
        /\ Finished(w, "SetUpAt")
        /\ Len(log[w]) = 4
        /\ log[w][3] = <<"MkdirAll", "fail">>
        /\ log[w][4] = <<"DetachDisk", "fail">>
        /\ ret[w] = ErrMkdir
        /\ attached

\* C15: a TearDownAt whose Unmount failed returns that error at once, with
\* no DetachDisk and no os.Remove; the target directory exists and is still
\* mounted, and the rest of the mount table (the global mount, the other
\* workloads' bind mounts) is as GetMountRefs read it before the unmount.
C15_UnmountFailureFrame ==
    \A w \in Workloads :
        ( /\ During(w, "TearDownAt")
          /\ \E i \in DOMAIN log[w] : log[w][i] = <<"Unmount", "fail">> )
        => /\ pc[w] = "idle"
           /\ ret[w] = ErrUnmount
           /\ log[w][Len(log[w])] = <<"Unmount", "fail">>
           /\ NumCalls(w, "DetachDisk") = 0
           /\ NumCalls(w, "Remove") = 0
           /\ PodDir(w) \in dirs
           /\ PodDir(w) \in mounts
           /\ mounts \ {PodDir(w)} = refs[w] \ {PodDir(w)}
           /\ (GlobalPath \in refs[w] => attached)

C15_Witness ==
    \E w \in Workloads :
        /\ Finished(w, "TearDownAt")
        /\ Len(log[w]) = 3
        /\ log[w][3] = <<"Unmount", "fail">>
        /\ ret[w] = ErrUnmount
        /\ refs[w] \ {PodDir(w)} = {GlobalPath}
        /\ mounts = {GlobalPath, PodDir(w)}
        /\ attached

\* C16: in a SetUpAt whose bind Mount failed, whose rollback Unmount returned
\* success and whose query after it still reports the target mounted, that
\* query is the last call: one Unmount only, no os.Remove, no DetachDisk;
\* the call returns the error of the Mount and the directory stays.
C16_StillMountedAborts ==
    \A w \in Workloads :
        ( /\ During(w, "SetUpAt")
          /\ Len(log[w]) >= 7
          /\ log[w][4][1] = "Mount" /\ log[w][4][2] # "ok"
          /\ log[w][6][1] = "Unmount" /\ log[w][6][2] # "fail"
          /\ log[w][7] = <<"IsMountPoint", "mounted">> )
        => /\ pc[w] = "idle"
           /\ ret[w] = ErrMount
           /\ Len(log[w]) = 7
           /\ NumCalls(w, "Unmount") = 1
           /\ NumCalls(w, "Remove") = 0
           /\ NumCalls(w, "DetachDisk") = 0
           /\ PodDir(w) \in dirs
           /\ attached

C16_Witness ==
    \E w \in Workloads :
        /\ Finished(w, "SetUpAt")
        /\ Len(log[w]) = 7
        /\ log[w][4] = <<"Mount", "failMounted">>
        /\ log[w][5] = <<"IsMountPoint", "mounted">>
        /\ log[w][6] = <<"Unmount", "okStill">>
        /\ log[w][7] = <<"IsMountPoint", "mounted">>
        /\ ret[w] = ErrMount
        /\ PodDir(w) \in mounts

\* The call of w stands at its DetachDisk invocation.
AtDetach(w) == pc[w] \in {"su_detach", "td_detach"}

\* The name recovered from the one path in r, if r has one path.
Recovered(r) ==
    {getPdNameFromGlobalMount(p, n).val : p \in r, n \in ReplaceCounts}

\* C17, as claimed: at every DetachDisk invocation pd.pdName is not empty;
\* at the one of TearDownAt, refs is the global mount path alone, pd.pdName
\* is the name recovered from it, and that is the identifier the disk was
\* attached with.
C17_DetachIdentifier ==
    \A w \in Workloads :
        /\ AtDetach(w) => pdName[w] # <<>>
        /\ pc[w] = "td_detach" =>
              /\ refs[w] = {GlobalPath}
              /\ pdName[w] \in Recovered(refs[w])
              /\ pdName[w] = DiskId

\* C17, amended: the same, the recovered name being the identifier the disk
\* was attached with when that identifier is "aws://" + a clean relative
\* path without "aws/" and "../", or a clean relative path that has no "../"
\* and does not begin with "aws/".
C17_DetachIdentifierCanonical ==
    \A w \in Workloads :
        /\ AtDetach(w) => pdName[w] # <<>>
        /\ pc[w] = "td_detach" =>
              /\ refs[w] = {GlobalPath}
              /\ pdName[w] \in Recovered(refs[w])
              /\ (CanonicalAwsId(DiskId) \/ PlainId(DiskId)) => pdName[w] = DiskId

C17_Witness ==
    \E w \in Workloads :
        /\ pc[w] = "td_detach"
        /\ op[w] = "TearDownAt"
        /\ CanonicalAwsId(DiskId)
        /\ refs[w] = {GlobalPath}
        /\ pdName[w] = DiskId

\* Before its i-th call, w's call has made the call with a result in results.
CalledBefore(w, i, call, results) ==
    \E j \in 1..(i - 1) : log[w][j][1] = call /\ log[w][j][2] \in results

\* C18: in a TearDownAt, GetMountRefs has returned before Unmount is called,
\* and Unmount has returned success before DetachDisk is called or about to
\* be called.
C18_TearDownOrder ==
    \A w \in Workloads :
        During(w, "TearDownAt") =>
            /\ \A i \in DOMAIN log[w] :
                  /\ log[w][i][1] = "Unmount"
                        => CalledBefore(w, i, "GetMountRefs", {"ok"})
                  /\ log[w][i][1] = "DetachDisk"
                        => CalledBefore(w, i, "Unmount", UnmountOutcomes \ {"fail"})
            /\ pc[w] = "td_detach"
                  => CalledBefore(w, Len(log[w]) + 1, "Unmount", UnmountOutcomes \ {"fail"})

C18_Witness ==
    \E w \in Workloads :
        /\ Finished(w, "TearDownAt")
        /\ log[w] = << <<"IsMountPoint", "mounted">>, <<"GetMountRefs", "ok">>,
                       <<"Unmount", "ok">>, <<"DetachDisk", "ok">>,
                       <<"IsMountPoint", "notMounted">>, <<"Remove", "ok">> >>
        /\ ret[w] = Nil
        /\ ~attached

\* C19 (checked under FreeSpec): when a TearDownAt stands at its DetachDisk
\* invocation while another workload's directory is bind-mounted, the caller
\* does not serialize the calls and that bind mount is not in refs: it was
\* made after GetMountRefs read the mount table.  With calls run one after
\* the other, TearDownAt invokes DetachDisk only when no other workload's
\* directory is bind-mounted.
C19_StaleSnapshot ==
    \A w, u \in Workloads :
        (w # u /\ pc[w] = "td_detach" /\ PodDir(u) \in mounts)
        => /\ sched = "free"
           /\ PodDir(u) \notin refs[w]

\* TearDownAt(P1) is about to detach the disk that the overlapping
\* SetUpAt(P2) has just bind-mounted.
C19_Witness ==
    /\ sched = "free"
    /\ op[1] = "TearDownAt" /\ pc[1] = "td_detach"
    /\ pdName[1] = DiskId
    /\ refs[1] \ {PodDir(1)} = {GlobalPath}
    /\ op[2] = "SetUpAt" /\ ret[2] = Nil /\ pc[2] = "idle"
    /\ log[2][Len(log[2])] = <<"Mount", "ok">>
    /\ PodDir(2) \in mounts
    /\ attached

\* C20: when the last call on the host is a TearDownAt that returned
\* success, its target is no mount point and the target directory is gone.
C20_TearDownSuccessClean ==
    \A w \in Workloads :
        (Finished(w, "TearDownAt") /\ ret[w] = Nil)
        => /\ PodDir(w) \notin mounts
           /\ PodDir(w) \notin dirs

\* ------------------------------------------------------------------------
\* Properties of the path mapper (checked under PathSpec)
\* ------------------------------------------------------------------------
\* C8, as claimed: for every identifier id without a parent-traversal
\* segment, getPdNameFromGlobalMount(makeGlobalPDName(id)) is id; also for
\* another scheme than aws, several "://", or a literal "aws/" at the start.
\* (Stated for the identifiers that map to a clean path.)
C8_RoundTrip ==
    ( /\ ppc = "doneMade"
      /\ NoTraversal(pid)
      /\ CleanRelative(Replace(pid, UriSep, <<Slash>>, -1)) )
    => name = [ok |-> TRUE, val |-> pid]

\* C8, amended: the round trip returns id for every identifier that is
\* "aws://" + a clean relative path containing neither "aws/" nor "../", and
\* for every identifier that is itself a clean relative path without "../"
\* and does not begin with "aws/".
C8_RoundTripCanonical ==
    (ppc = "doneMade" /\ (CanonicalAwsId(pid) \/ PlainId(pid)))
    => name = [ok |-> TRUE, val |-> pid]

C8_Witness ==
    /\ ppc = "doneMade"
    /\ pid = AwsUri \o <<"v", "/", "v">>
    /\ CanonicalAwsId(pid)
    /\ name = [ok |-> TRUE, val |-> pid]

\* p, cleaned, is not the mount root and not below it.
EscapesRoot(p) ==
    /\ IsAbs(p)
    /\ CommonLen(CleanParts(BasePath), CleanParts(p)) < Len(CleanParts(BasePath))

\* C9: getPdNameFromGlobalMount fails, and returns no identifier, for every
\* global path that escapes the mount root.
C9_TraversalRejected ==
    (ppc \in {"doneMade", "doneRaw"} /\ EscapesRoot(gpath))
    => (~name.ok /\ name.val = <<>>)

====
